---------------------------- MODULE Spec2Model ----------------------------
(***************************************************************************)
(* AMI replication: the kickoff Lambda (one invocation per target of the   *)
(* pipeline's Copy stage) and the AMICopier Step Functions state machine   *)
(* it starts, with the Lambda handlers the task states invoke.             *)
(*                                                                         *)
(* src/lib/build-pipeline.ts declares the state machine (task states,      *)
(* retry policy, catches, the wait and the choice); the handlers are the   *)
(* Lambda code in src/lib/common.ts.  The Step Functions engine and the    *)
(* remote services are the environment: every remote call succeeds or      *)
(* throws, and a task invocation may end in one of the Lambda service      *)
(* errors the retry policy names, before or after the handler has run.     *)
(***************************************************************************)
EXTENDS Integers, Sequences, FiniteSets, TLC

\* ------------------------------------------------------------------ bounds
\* The destination snapshot reports a non-terminal state at most this many
\* times before it reports 'completed' or 'error'.
MaxPolls == 2

\* ----------------------------------------------------- program constants
\* RetriableTask.addRetry
IntervalSeconds == 2
BackoffRate == 2
MaxAttempts == 6
\* waitStep
WaitSeconds == 30

\* The errors RetriableTask retries: errors of the Lambda service itself.
RetryErrors ==
    {"Lambda.ServiceException", "Lambda.AWSLambdaException", "Lambda.SdkClientException"}

\* Errors a handler throws (the name of the rejected SDK call's error):
\* a denied role assumption or permission, and any other failure of a call.
AuthErrors == {"AccessDenied"}
FunctionErrors == AuthErrors \cup {"ThrottlingException"}

\* ------------------------------------------------------------ the fan-out
\* copyActions: one LambdaInvokeAction per (accountId, region) of shareWith.
Targets == {"t1", "t2"}

destinationAccountId(t) == IF t = "t1" THEN "111111111111" ELSE "222222222222"

\* CodePipeline gives every action execution its own job id.
JobId(t) == IF t = "t1" THEN "job-1" ELSE "job-2"

\* The rest of userParameters: the target's region, and what is the same for
\* every target of the pipeline.
destinationRegion(t) == IF t = "t1" THEN "us-east-1" ELSE "eu-west-1"
amiName == "web"
destinationRoleName == "AMICopyRole-web"
kmsKeyAlias == "alias/ami/web"

\* What EC2 names the copy of the snapshot and the image registered from it.
SnapshotCopyId(t) == IF t = "t1" THEN "snap-copy-1" ELSE "snap-copy-2"
ImageCopyId(t) == IF t = "t1" THEN "ami-copy-1" ELSE "ami-copy-2"

\* describeImages(...).Images[0] of the source image, as it is when the
\* pipeline starts and as it is after somebody has changed the image's tags.
SourceImageVersions == {"v1", "v2"}

\* Images[0].Tags of a version, as Key/Value pairs.
Tags(attrs) ==
    IF attrs = "v1" THEN {<<"Name", "web">>, <<"TestStatus", "PASSED">>}
    ELSE IF attrs = "v2" THEN {<<"Name", "web">>, <<"TestStatus", "PASSED">>, <<"Release", "2">>}
    ELSE {}

\* image.BlockDeviceMappings[*].Ebs.SnapshotId of the source image
SourceSnapshots == <<"snap-a", "snap-b">>

\* Images[0] of a version: the attributes registerImage reads.  The image has
\* one EBS mapping for each of its snapshots.
BlockDeviceMappings(attrs) ==
    [i \in 1..Len(SourceSnapshots) |->
        [DeviceName |-> IF i = 1 THEN "/dev/xvda" ELSE "/dev/xvdb",
         Ebs |-> [SnapshotId |-> SourceSnapshots[i], DeleteOnTermination |-> TRUE,
                  VolumeType |-> "gp2", VolumeSize |-> IF i = 1 THEN "8" ELSE "100"]]]

Image(attrs) ==
    [Name |-> "web-1", Architecture |-> "x86_64", VirtualizationType |-> "paravirtual",
     KernelId |-> "aki-1", RamdiskId |-> "ari-1", RootDeviceName |-> "/dev/xvda",
     BlockDeviceMappings |-> BlockDeviceMappings(attrs), Tags |-> Tags(attrs)]

\* Snapshot.State as EC2 reports it; the non-terminal ones keep the loop going.
NonTerminalStates == {"pending"}
SnapshotStates == NonTerminalStates \cup {"completed", "error"}

None == "none"

\* ------------------------------------------------------------- the manifest
\* Strings are sequences of characters.  What JavaScript gives for a missing
\* array element or object key:
Undefined == <<"undefined">>

\* String.prototype.split(sep) for a one-character separator: the pieces
\* between the separators, empty pieces included ("".split(",") is [""]).
RECURSIVE SplitFrom(_, _, _, _)
SplitFrom(str, sep, i, piece) ==
    IF i > Len(str) THEN <<piece>>
    ELSE IF str[i] = sep THEN <<piece>> \o SplitFrom(str, sep, i + 1, <<>>)
    ELSE SplitFrom(str, sep, i + 1, Append(piece, str[i]))

Split(str, sep) == SplitFrom(str, sep, 1, <<>>)

\* array[i] for a 0-based index i: undefined past the end.
At(array, i) == IF i + 1 <= Len(array) THEN array[i + 1] ELSE Undefined

\* images[key] = value
Put(images, key, value) ==
    [k \in DOMAIN images \cup {key} |-> IF k = key THEN value ELSE images[k]]

\* images[key]
Get(images, key) == IF key \in DOMAIN images THEN images[key] ELSE Undefined

\* Mutant of PairRegion: the id's index is used for the region.
PairRegionWrongIndex(regionIdPair) == At(Split(regionIdPair, ":"), 1)

\* regionIdPair.split(':')[0] and regionIdPair.split(':')[1]
PairRegion(regionIdPair) == At(Split(regionIdPair, ":"), 0)
PairAmiId(regionIdPair) == At(Split(regionIdPair, ":"), 1)

\* The forEach of getAmiIDsByRegion over the pairs from index i on.
RECURSIVE ImagesFrom(_, _, _)
ImagesFrom(pairList, i, images) ==
    IF i > Len(pairList) THEN images
    ELSE ImagesFrom(pairList, i + 1,
                    Put(images, PairRegion(pairList[i]), PairAmiId(pairList[i])))

\* getAmiIDsByRegion(manifest), of manifest.builds[0].artifact_id
getAmiIDsByRegion(artifactId) == ImagesFrom(Split(artifactId, ","), 1, <<>>)

\* What Packer writes as artifact_id for a list of <<region, image id>>:
\* "region:id" joined by commas.
RECURSIVE ArtifactIdFrom(_, _)
ArtifactIdFrom(pairs, i) ==
    IF i > Len(pairs) THEN <<>>
    ELSE pairs[i][1] \o <<":">> \o pairs[i][2]
         \o (IF i < Len(pairs) THEN <<",">> ELSE <<>>)
         \o ArtifactIdFrom(pairs, i + 1)

ArtifactId(pairs) == ArtifactIdFrom(pairs, 1)

\* The longest list of pairs the manifests of ManifestSpec hold.
MaxPairs == 2

\* Region names and image ids the manifests are drawn from; one id holds a
\* colon, which the format cannot carry.
RegionNames == {<<"w">>, <<"e">>, <<"w", "e">>}
ImageIds == {<<"1">>, <<"2">>, <<"1", ":">>}

PairLists ==
    UNION {[1..n -> RegionNames \X ImageIds] : n \in 0..MaxPairs}

\* const region = process.env.AWS_REGION: the region kickoff runs in.
region == <<"w">>

\* The artifact_id of the manifest the pipeline's build stage hands to the
\* Copy stage: one that lists the operating region and one that does not.
ListedManifest == ArtifactId(<<<<region, <<"1">>>>, <<<<"e">>, <<"2">>>>>>)
UnlistedManifest == ArtifactId(<<<<<<"e">>, <<"2">>>>>>)
KickoffManifests == {ListedManifest, UnlistedManifest}

\* ---------------------------------------------------- the key bootstrap
\* Invocations of copySnapshot for the same kmsKeyAlias in the same
\* destination account and region.
Runs == {"r1", "r2"}

\* response.KeyMetadata.Arn of the key createKey makes for a run: KMS gives
\* every new key an id of its own.
KeyOf(r) == IF r = "r1" THEN "key-1" ELSE "key-2"

\* e.code of the KMS errors the handler's catch block tells apart.
NotFound == "NotFoundException"
AlreadyExists == "AlreadyExistsException"

VARIABLES
    manifest,     \* artifact_id of the manifest in the input artifact
    kpc,          \* kickoff: position of each target's invocation
    kami,         \* kickoff: amiId, once resolved
    kfail,        \* kickoff: the step of the try block that threw
    described,    \* kickoff: the ImageIds describeImages was called with
    kidx,         \* kickoff: block-device mappings already shared
    perms,        \* createVolumePermission grants: <<snapshot, account>>
    manifestReads,\* times the manifest was fetched from the artifact
    started,      \* startExecution calls that started an execution, per target
    pc,           \* state machine: current state of each target's execution
    event,        \* state machine: the execution's state document
    retryCount,   \* retries of the current task state so far
    waits,        \* backoff intervals waited in the current task state
    last,         \* the task state that finished last, and how
    elapsed,      \* seconds waited since the last status check returned
    nChecks,      \* status checks that returned a state
    nPending,     \* of these, the ones that returned a non-terminal state
    serviceFaults,\* whether the Lambda service fails invocations in this run
    successCalls, \* putJobSuccessResult calls CodePipeline received, per target
    failureCalls, \* putJobFailureResult calls CodePipeline received, per target
    reported,     \* what these calls carried: kind, jobId, message, per target
    sourceImage,  \* the source image as describeImages gives it now
    dest,         \* destination side of each target: what the handlers' calls
                  \* were made with, and under which credentials
    mf,           \* manifest resolution on its own: input, parsed map, result
    kms,          \* the destination's KMS (keys made, the alias, policy puts)
                  \* and the runs whose ec2.copySnapshot call was made
    run,          \* copySnapshot step by step: each run's position and locals
    harness,      \* the test stage's harness: main's position and locals, the
                  \* temporary resources, and the AMI's TestStatus tag
    copyTasks     \* pipeline.ts's state machine: the execution, and each
                  \* branch of the Parallel state 'CopyTasks'

vars == <<manifest, kpc, kami, kfail, described, kidx, perms, manifestReads,
          started, pc, event, retryCount, waits, last, elapsed,
          nChecks, nPending, serviceFaults, successCalls, failureCalls,
          reported, sourceImage, dest, mf, kms, run, harness, copyTasks>>

kvars == <<manifest, kpc, kami, kfail, described, kidx, perms, manifestReads,
           started>>
pollvars == <<elapsed, nChecks, nPending>>
\* What the kickoff invocations and the executions never touch.
keyvars == <<kms, run>>
auxvars == <<mf, keyvars, harness, copyTasks>>

NoEvent ==
    [jobId |-> None, sourceImageId |-> Undefined, destinationAccountId |-> None,
     destinationRegion |-> None, destinationRoleName |-> None,
     kmsKeyAlias |-> None, amiName |-> None, sourceImageAttrs |-> None,
     destinationSnapshotId |-> None, snapshotProgress |-> None,
     snapshotState |-> None, snapshotStateMessage |-> None, destinationImageId |-> None, errorInfo |-> None]

NoCredentials == <<>>

NoDest ==
    [polled |-> None, registeredFrom |-> None, imageAttrs |-> None, image |-> None,
     imageTags |-> {}, snapshotTags |-> {}, taggedSnapshot |-> None,
     issued |-> NoCredentials, used |-> NoCredentials]

NoManifest ==
    [pc |-> "off", pairs |-> <<>>, artifactId |-> <<>>, region |-> <<>>,
     images |-> <<>>, amiId |-> Undefined]

NoKms == [keys |-> {}, alias |-> None, puts |-> 0, copyRequests |-> {}]

IdleRun ==
    [pc |-> "idle", after |-> {}, found |-> None, policyPut |-> FALSE,
     putNotFound |-> FALSE, created |-> None, aliasCreated |-> FALSE,
     resolved |-> None, destinationSnapshotId |-> None, failedAt |-> None,
     error |-> None, route |-> None]

\* process.exitCode: undefined until assigned, then a one-element sequence.
NoExitCode == <<>>
Code(c) == <<c>>

VersionFiles ==
    <<"CODEBUILD_SOURCE_VERSION", "CODEBUILD_BUILD_ID", "CODEBUILD_RESOLVED_SOURCE_VERSION">>

NoHarness ==
    [pc |-> "off", env |-> {}, keyfd |-> None, securityGroup |-> FALSE,
     keyPair |-> FALSE, amiId |-> Undefined, instance |-> FALSE,
     terminated |-> FALSE, calls |-> <<>>, sshOpen |-> None,
     inspec |-> NoExitCode, signal |-> None,
     pending |-> None, settled |-> None, caught |-> FALSE,
     exitCode |-> NoExitCode, statusTagValue |-> None, tag |-> None,
     snapshotTag |-> None, fileIdx |-> 0, files |-> {}]

NoCopyTasks ==
    [exec |-> "off",
     pc |-> [t \in Targets |-> "off"],
     snapshotState |-> [t \in Targets |-> None],
     checks |-> [t \in Targets |-> 0],
     successCalls |-> 0]

NoLast == [state |-> None, outcome |-> None, error |-> None, retries |-> 0, waits |-> <<>>]

\* The state after the pipeline's Copy stage has invoked kickoff once for each
\* target of shareWith; the other targets stay out of the run.
InitPipeline(shareWith, faults) ==
    /\ kpc = [t \in Targets |-> IF t \in shareWith THEN "read" ELSE "none"]
    /\ kami = [t \in Targets |-> Undefined]
    /\ kfail = [t \in Targets |-> None]
    /\ described = [t \in Targets |-> {}]
    /\ kidx = [t \in Targets |-> 0]
    /\ perms = {}
    /\ manifestReads = 0
    /\ started = [t \in Targets |-> 0]
    /\ pc = [t \in Targets |-> "NotStarted"]
    /\ event = [t \in Targets |-> NoEvent]
    /\ retryCount = [t \in Targets |-> 0]
    /\ waits = [t \in Targets |-> <<>>]
    /\ last = [t \in Targets |-> NoLast]
    /\ elapsed = [t \in Targets |-> 0]
    /\ nChecks = [t \in Targets |-> 0]
    /\ nPending = [t \in Targets |-> 0]
    /\ serviceFaults = faults
    /\ successCalls = [t \in Targets |-> 0]
    /\ failureCalls = [t \in Targets |-> 0]
    /\ reported = [t \in Targets |-> {}]
    /\ sourceImage = "v1"
    /\ dest = [t \in Targets |-> NoDest]

InitWith(shareWith, faults) ==
    /\ InitPipeline(shareWith, faults)
    /\ manifest \in KickoffManifests
    /\ mf = NoManifest
    /\ kms = NoKms
    /\ run = [r \in Runs |-> IdleRun]
    /\ harness = NoHarness
    /\ copyTasks = NoCopyTasks

\* One target, every outcome of every invocation.
Init == InitWith({"t1"}, TRUE)

\* The fan-out: all targets at once, handlers may throw, but the Lambda
\* service itself fails no invocation.
FanOutInit == InitWith(Targets, FALSE)

\* ------------------------------------------------------------------ kickoff
\* exports.kickoff runs once for each target.  Its try block is a sequence of
\* steps; a step that throws leaves the rest undone and enters the catch block.
xvars == <<pc, event, retryCount, waits, last, pollvars, serviceFaults,
           successCalls, sourceImage, dest, auxvars>>

\* The try block up to the manifest: parse UserParameters, fetch the artifact
\* from S3, unzip it, read manifest.json.
KickoffRead(t) ==
    /\ kpc[t] = "read"
    /\ \/ /\ kpc' = [kpc EXCEPT ![t] = "resolve"]
          /\ manifestReads' = manifestReads + 1
          /\ UNCHANGED kfail
       \/ /\ kpc' = [kpc EXCEPT ![t] = "catch"]
          /\ kfail' = [kfail EXCEPT ![t] = "read"]
          /\ UNCHANGED manifestReads
    /\ UNCHANGED <<manifest, kami, described, kidx, perms, started, failureCalls, reported, xvars>>

\* amiMap = getAmiIDsByRegion(JSON.parse(manifest)); amiId = amiMap[region].
\* Nothing looks at amiId before it is passed on.
KickoffResolve(t) ==
    /\ kpc[t] = "resolve"
    /\ kami' = [kami EXCEPT ![t] = Get(getAmiIDsByRegion(manifest), region)]
    /\ kpc' = [kpc EXCEPT ![t] = "describe"]
    /\ UNCHANGED <<manifest, kfail, described, kidx, perms, manifestReads, started,
                   failureCalls, reported, xvars>>

\* ec2.describeImages({ImageIds: [amiId]}): the SDK rejects an undefined list
\* member before anything is sent; a call that is sent returns the image or
\* throws.
KickoffDescribe(t) ==
    /\ kpc[t] = "describe"
    /\ described' = [described EXCEPT ![t] = @ \cup {kami[t]}]
    /\ \/ /\ kami[t] # Undefined
          /\ kpc' = [kpc EXCEPT ![t] = "share"]
          /\ UNCHANGED kfail
       \/ /\ kpc' = [kpc EXCEPT ![t] = "catch"]
          /\ kfail' = [kfail EXCEPT ![t] = "describe"]
    /\ UNCHANGED <<manifest, kami, kidx, perms, manifestReads, started,
                   failureCalls, reported, xvars>>

\* Mutant of KickoffShare: only the first block-device mapping is shared.
KickoffShareFirstOnly(t) ==
    /\ kpc[t] = "share"
    /\ \/ /\ kidx[t] < 1
          /\ perms' = perms \cup {<<SourceSnapshots[kidx[t] + 1], destinationAccountId(t)>>}
          /\ kidx' = [kidx EXCEPT ![t] = @ + 1]
          /\ UNCHANGED <<kpc, kfail>>
       \/ /\ kidx[t] < 1
          /\ kpc' = [kpc EXCEPT ![t] = "catch"]
          /\ kfail' = [kfail EXCEPT ![t] = "share"]
          /\ UNCHANGED <<kidx, perms>>
       \/ /\ kidx[t] = 1
          /\ kpc' = [kpc EXCEPT ![t] = "start"]
          /\ UNCHANGED <<kidx, perms, kfail>>
    /\ UNCHANGED <<manifest, kami, described, manifestReads, started,
                   failureCalls, reported, xvars>>

\* Mutant of KickoffShare: a grant that fails is passed over.
KickoffShareIgnoresFailure(t) ==
    /\ kpc[t] = "share"
    /\ \/ /\ kidx[t] < Len(SourceSnapshots)
          /\ perms' = perms \cup {<<SourceSnapshots[kidx[t] + 1], destinationAccountId(t)>>}
          /\ kidx' = [kidx EXCEPT ![t] = @ + 1]
          /\ UNCHANGED <<kpc, kfail>>
       \/ /\ kidx[t] < Len(SourceSnapshots)
          /\ kidx' = [kidx EXCEPT ![t] = @ + 1]
          /\ kfail' = [kfail EXCEPT ![t] = "share"]
          /\ UNCHANGED <<kpc, perms>>
       \/ /\ kidx[t] = Len(SourceSnapshots)
          /\ kpc' = [kpc EXCEPT ![t] = "start"]
          /\ UNCHANGED <<kidx, perms, kfail>>
    /\ UNCHANGED <<manifest, kami, described, manifestReads, started,
                   failureCalls, reported, xvars>>

\* One turn of the loop over image.BlockDeviceMappings: modifySnapshotAttribute
\* adds the target's account to the snapshot's createVolumePermission.
KickoffShare(t) ==
    /\ kpc[t] = "share"
    /\ \/ /\ kidx[t] < Len(SourceSnapshots)
          /\ perms' = perms \cup {<<SourceSnapshots[kidx[t] + 1], destinationAccountId(t)>>}
          /\ kidx' = [kidx EXCEPT ![t] = @ + 1]
          /\ UNCHANGED <<kpc, kfail>>
       \/ /\ kidx[t] < Len(SourceSnapshots)
          /\ kpc' = [kpc EXCEPT ![t] = "catch"]
          /\ kfail' = [kfail EXCEPT ![t] = "share"]
          /\ UNCHANGED <<kidx, perms>>
       \/ /\ kidx[t] = Len(SourceSnapshots)
          /\ kpc' = [kpc EXCEPT ![t] = "start"]
          /\ UNCHANGED <<kidx, perms, kfail>>
    /\ UNCHANGED <<manifest, kami, described, manifestReads, started,
                   failureCalls, reported, xvars>>

\* Mutant of ExecutionInput: every execution is given the first job's id.
ExecutionInputSameJob(t) == [NoEvent EXCEPT !.jobId = JobId("t1")]

\* The input document of the execution: jobId, sourceImageId, ...parameters.
ExecutionInput(t) ==
    [NoEvent EXCEPT !.jobId = JobId(t),
                    !.sourceImageId = kami[t],
                    !.destinationAccountId = destinationAccountId(t),
                    !.destinationRegion = destinationRegion(t),
                    !.destinationRoleName = destinationRoleName,
                    !.kmsKeyAlias = kmsKeyAlias,
                    !.amiName = amiName]

\* StepFunctions.startExecution: the execution starts in the definition's
\* first state, or the call throws and nothing was started.
KickoffStartExecution(t) ==
    /\ kpc[t] = "start"
    /\ \/ /\ kpc' = [kpc EXCEPT ![t] = "done"]
          /\ started' = [started EXCEPT ![t] = @ + 1]
          /\ pc' = [pc EXCEPT ![t] = "Start snapshot copy"]
          /\ event' = [event EXCEPT ![t] = ExecutionInput(t)]
          /\ UNCHANGED kfail
       \/ /\ kpc' = [kpc EXCEPT ![t] = "catch"]
          /\ kfail' = [kfail EXCEPT ![t] = "start"]
          /\ UNCHANGED <<started, pc, event>>
    /\ UNCHANGED <<manifest, kami, described, kidx, perms, manifestReads,
                   retryCount, waits, last, pollvars, serviceFaults,
                   successCalls, failureCalls, reported, sourceImage, dest,
                   auxvars>>

\* putJobFailureResult of the catch block: job.id and `ERROR: name: message`
\* of what the try block threw.
KickoffFailure(t) ==
    [kind |-> "failure", jobId |-> JobId(t), message |-> <<"ERROR", kfail[t]>>]

\* Mutant of KickoffCatch: the catch block reports nothing.
KickoffCatchSilent(t) ==
    /\ kpc[t] = "catch"
    /\ kpc' = [kpc EXCEPT ![t] = "done"]
    /\ UNCHANGED <<manifest, kami, kfail, described, kidx, perms, manifestReads,
                   started, failureCalls, reported, xvars>>

\* The catch block: putJobFailureResult for job.id.  If that call throws too,
\* the handler rejects and nothing was reported.
KickoffCatch(t) ==
    /\ kpc[t] = "catch"
    /\ \/ /\ failureCalls' = [failureCalls EXCEPT ![t] = @ + 1]
          /\ reported' = [reported EXCEPT ![t] = @ \cup {KickoffFailure(t)}]
          /\ kpc' = [kpc EXCEPT ![t] = "done"]
       \/ /\ kpc' = [kpc EXCEPT ![t] = "threw"]
          /\ UNCHANGED <<failureCalls, reported>>
    /\ UNCHANGED <<manifest, kami, kfail, described, kidx, perms, manifestReads,
                   started, xvars>>

\* ------------------------------------------------- the state machine's shape
\* Terminal: the end of the definition after 'Job successful', the Fail state,
\* and an execution that died of an error no state caught.
TerminalStates == {"Succeeded", "Fail", "ExecutionFailed"}

\* .next(...): the state a task state leads to when its task returns.
NextState(s) ==
    CASE s = "Start snapshot copy" -> "Check snapshot status"
      [] s = "Check snapshot status" -> "Is snapshot ready?"
      [] s = "Register AMI" -> "Job successful"
      [] s = "Job successful" -> "Succeeded"
      [] s = "Copy failed" -> "Fail"
      [] s = "Wait" -> "Check snapshot status"

\* Mutant of CatchTarget: the notifier tasks are given the catch as well.
CatchTargetEveryTask(s) == "Copy failed"

\* Mutant of CatchTarget: 'Register AMI' is left without its catch.
CatchTargetNotRegister(s) ==
    IF s \in {"Start snapshot copy", "Check snapshot status"}
    THEN "Copy failed"
    ELSE None

\* .addCatch(failTask, ...): the state a task state's errors are caught into;
\* successTask and failTask have no catch.
CatchTarget(s) ==
    IF s \in {"Start snapshot copy", "Check snapshot status", "Register AMI"}
    THEN "Copy failed"
    ELSE None

\* Mutant of ProgressChoice: the 'error' branch is missing, so an errored
\* snapshot is waited for like a pending one.
ProgressChoiceNoErrorBranch(snapshotState) ==
    IF snapshotState = "completed" THEN "Register AMI" ELSE "Wait"

\* Mutant of ProgressChoice: the otherwise branch goes back to the check
\* without passing through the wait.
ProgressChoiceNoWait(snapshotState) ==
    IF snapshotState = "completed" THEN "Register AMI"
    ELSE IF snapshotState = "error" THEN "Copy failed"
    ELSE "Check snapshot status"

\* progressChoice
ProgressChoice(snapshotState) ==
    IF snapshotState = "completed" THEN "Register AMI"
    ELSE IF snapshotState = "error" THEN "Copy failed"
    ELSE "Wait"

\* Mutant of ShouldRetry: one retry more than maxAttempts.
ShouldRetryOneMore(err, n) == err \in RetryErrors /\ n <= MaxAttempts

\* RetriableTask: retry the named errors while fewer than maxAttempts retries
\* have been made of this task state.
ShouldRetry(err, n) == err \in RetryErrors /\ n < MaxAttempts

\* Mutant of BackoffInterval: the interval grows linearly.
BackoffIntervalLinear(n) == IntervalSeconds * (n + 1)

\* The wait before retry number n+1: interval * backoffRate^n.
BackoffInterval(n) == IntervalSeconds * BackoffRate ^ n

Finished(t, how, err) ==
    [state |-> pc[t], outcome |-> how, error |-> err,
     retries |-> retryCount[t], waits |-> waits[t]]

\* The task of the current state returned: its result replaces the document.
TaskReturns(t, result) ==
    /\ pc' = [pc EXCEPT ![t] = NextState(pc[t])]
    /\ event' = [event EXCEPT ![t] = result]
    /\ retryCount' = [retryCount EXCEPT ![t] = 0]
    /\ waits' = [waits EXCEPT ![t] = <<>>]
    /\ last' = [last EXCEPT ![t] = Finished(t, "ok", None)]

\* Mutant of CatchResult: the catch has no resultPath, so the error takes
\* the place of the document.
CatchResultReplaces(doc, err) == [NoEvent EXCEPT !.errorInfo = err]

\* addCatch(failTask, { resultPath: '$.errorInfo' }): the state's input with
\* the error put at errorInfo.
CatchResult(doc, err) == [doc EXCEPT !.errorInfo = err]

\* The task of the current state failed with err: retry after the backoff,
\* else take the catch (the error goes to $.errorInfo), else the execution fails.
TaskErrors(t, err) ==
    IF ShouldRetry(err, retryCount[t])
    THEN /\ retryCount' = [retryCount EXCEPT ![t] = @ + 1]
         /\ waits' = [waits EXCEPT ![t] = Append(@, BackoffInterval(retryCount[t]))]
         /\ last' = [last EXCEPT ![t] = Finished(t, "retry", err)]
         /\ UNCHANGED <<pc, event>>
    ELSE /\ retryCount' = [retryCount EXCEPT ![t] = 0]
         /\ waits' = [waits EXCEPT ![t] = <<>>]
         /\ IF CatchTarget(pc[t]) # None
            THEN /\ pc' = [pc EXCEPT ![t] = CatchTarget(pc[t])]
                 /\ event' = [event EXCEPT ![t] = CatchResult(event[t], err)]
                 /\ last' = [last EXCEPT ![t] = Finished(t, "caught", err)]
            ELSE /\ pc' = [pc EXCEPT ![t] = "ExecutionFailed"]
                 /\ UNCHANGED event
                 /\ last' = [last EXCEPT ![t] = Finished(t, "uncaught", err)]


\* ------------------------------------------------------------- task states
\* How an invocation of a task's Lambda function can end for the state
\* machine: the handler returned; the handler threw (a function error); or the
\* Lambda service failed the invocation with one of its own errors, either
\* before the handler ran or after it ran and its response was lost.

\* sts.assumeRole in the handler of the current state, in the current turn of
\* the polling loop: every call gives credentials of its own.
AssumeRole(t) == <<t, pc[t], nChecks[t]>>

\* Mutant of UsedCredentials: the credentials of the execution's first
\* handler are kept and used again.
UsedCredentialsKept(t, assumed) ==
    IF dest[t].used # NoCredentials THEN dest[t].used ELSE assumed

\* new aws.EC2(foreignAccountParams): the clients of the destination are made
\* from assumeRoleResponse.Credentials of this invocation.
UsedCredentials(t, assumed) == assumed

\* The handler assumed the role and made its calls in the destination.
WithCredentials(t, d) ==
    [d EXCEPT !.issued = AssumeRole(t),
              !.used = UsedCredentials(t, AssumeRole(t))]

\* Mutant of copySnapshotReturns: the credentials travel in the document.
copySnapshotReturnsCredentials(doc, attrs, snapshotId) ==
    [k \in DOMAIN doc \cup {"credentials"} |->
        IF k = "credentials" THEN <<"AccessKeyId", "SecretAccessKey", "SessionToken">>
        ELSE IF k = "sourceImageAttrs" THEN attrs
        ELSE IF k = "destinationSnapshotId" THEN snapshotId
        ELSE doc[k]]

\* copySnapshot: event.sourceImageAttrs = imageAttrs.Images[0]; ...
\* event.destinationSnapshotId = copySnapshotResponse.SnapshotId; return event
copySnapshotReturns(doc, attrs, snapshotId) ==
    [doc EXCEPT !.sourceImageAttrs = attrs, !.destinationSnapshotId = snapshotId]

\* snapshot.Progress for a snapshot.State
Progress(state) ==
    IF state = "completed" THEN "100%" ELSE IF state = "pending" THEN "50%" ELSE "0%"

\* snapshot.StateMessage for a snapshot.State
StateMessage(state) == IF state = "error" THEN "copy failed" ELSE ""

\* Mutant of checkSnapshotProgressReturns: the snapshot id is written again,
\* from another snapshot.
checkSnapshotProgressReturnsOtherId(doc, state) ==
    [doc EXCEPT !.snapshotProgress = Progress(state), !.snapshotState = state,
                !.snapshotStateMessage = StateMessage(state),
                !.destinationSnapshotId = "snap-other"]

\* checkSnapshotProgress: event.snapshotProgress = snapshot.Progress;
\* event.snapshotState = snapshot.State;
\* event.snapshotStateMessage = snapshot.StateMessage; return event
checkSnapshotProgressReturns(doc, state) ==
    [doc EXCEPT !.snapshotProgress = Progress(state), !.snapshotState = state,
                !.snapshotStateMessage = StateMessage(state)]

\* Mutant of registerImageReturns: the source image's attributes are taken
\* again at registration.
registerImageReturnsRecaptured(doc, imageId) ==
    [doc EXCEPT !.destinationImageId = imageId, !.sourceImageAttrs = sourceImage]

\* registerImage: event.destinationImageId = response.ImageId; return event
registerImageReturns(doc, imageId) == [doc EXCEPT !.destinationImageId = imageId]

\* Mutant of RegisterParams: the image is described again at registration.
RegisterParamsRequeried(doc) ==
    [attrs |-> sourceImage, snapshotId |-> doc.destinationSnapshotId,
     params |-> [Image(sourceImage) EXCEPT !.BlockDeviceMappings = <<>>]]

\* const params = { Name: event.sourceImageAttrs.Name, ...,
\*   BlockDeviceMappings: [{ DeviceName: ...BlockDeviceMappings[0].DeviceName,
\*     Ebs: { SnapshotId: event.destinationSnapshotId, ... } }], ... }
ImageParams(doc) ==
    [Name |-> Image(doc.sourceImageAttrs).Name,
     Architecture |-> Image(doc.sourceImageAttrs).Architecture,
     BlockDeviceMappings |->
        <<[DeviceName |-> Image(doc.sourceImageAttrs).BlockDeviceMappings[1].DeviceName,
           Ebs |-> [SnapshotId |-> doc.destinationSnapshotId,
                    DeleteOnTermination |->
                        Image(doc.sourceImageAttrs).BlockDeviceMappings[1].Ebs.DeleteOnTermination,
                    VolumeType |->
                        Image(doc.sourceImageAttrs).BlockDeviceMappings[1].Ebs.VolumeType,
                    VolumeSize |->
                        Image(doc.sourceImageAttrs).BlockDeviceMappings[1].Ebs.VolumeSize]]>>,
     VirtualizationType |-> Image(doc.sourceImageAttrs).VirtualizationType,
     KernelId |-> Image(doc.sourceImageAttrs).KernelId,
     RamdiskId |-> Image(doc.sourceImageAttrs).RamdiskId,
     RootDeviceName |-> Image(doc.sourceImageAttrs).RootDeviceName]

\* registerImage's params: Name, Architecture, the device mapping and the
\* rest from event.sourceImageAttrs, Ebs.SnapshotId from
\* event.destinationSnapshotId.
RegisterParams(doc) ==
    [attrs |-> doc.sourceImageAttrs, snapshotId |-> doc.destinationSnapshotId,
     params |-> ImageParams(doc)]

\* Mutant of TagResources: only the image is tagged.
TagResourcesImageOnly(doc, imageId) == {imageId}

\* createTags: Resources and Tags.
TagResources(doc, imageId) == {imageId, doc.destinationSnapshotId}
TagsParam(doc) == Tags(doc.sourceImageAttrs)

\* ec2.registerImage(params) returned.
Registered(t, d) ==
    [d EXCEPT !.imageAttrs = RegisterParams(event[t]).attrs,
              !.image = RegisterParams(event[t]).params,
              !.registeredFrom = RegisterParams(event[t]).snapshotId]

\* ec2.createTags(...) returned.
Tagged(t, d) ==
    [d EXCEPT !.imageTags =
                  IF ImageCopyId(t) \in TagResources(event[t], ImageCopyId(t))
                  THEN TagsParam(event[t]) ELSE @,
              !.snapshotTags =
                  IF event[t].destinationSnapshotId \in TagResources(event[t], ImageCopyId(t))
                  THEN TagsParam(event[t]) ELSE @,
              !.taggedSnapshot =
                  IF event[t].destinationSnapshotId \in TagResources(event[t], ImageCopyId(t))
                  THEN event[t].destinationSnapshotId ELSE @]

\* notifySuccess: putJobSuccessResult({jobId: event.jobId})
SuccessReport(doc) == [kind |-> "success", jobId |-> doc.jobId, message |-> <<>>]

\* notifyFailure: putJobFailureResult with event.jobId and the message
\* `... to ${destinationAccountId}/${destinationRegion}, snapshot ID
\* ${destinationSnapshotId}`: its three interpolations.
FailureMessage(doc) ==
    <<doc.destinationAccountId, doc.destinationRegion, doc.destinationSnapshotId>>

FailureReport(doc) ==
    [kind |-> "failure", jobId |-> doc.jobId, message |-> FailureMessage(doc)]

\* 'Start snapshot copy' -> exports.copySnapshot: the source image is
\* described, the role assumed, the snapshot copied; the document returns with
\* sourceImageAttrs and with destinationSnapshotId set to the id EC2 gave the
\* copy.
StartSnapshotCopy(t) ==
    /\ pc[t] = "Start snapshot copy"
    /\ \/ /\ TaskReturns(t, copySnapshotReturns(event[t], sourceImage, SnapshotCopyId(t)))
          /\ dest' = [dest EXCEPT ![t] = WithCredentials(t, @)]
       \/ \E e \in FunctionErrors : TaskErrors(t, e) /\ UNCHANGED dest
       \/ \E e \in RetryErrors : serviceFaults /\ TaskErrors(t, e) /\ UNCHANGED dest
    /\ UNCHANGED <<kvars, pollvars, serviceFaults, successCalls, failureCalls,
                   reported, sourceImage, auxvars>>

\* 'Check snapshot status' -> exports.checkSnapshotProgress: the role is
\* assumed, and the document gets the state describeSnapshots reports for
\* event.destinationSnapshotId.
CheckSnapshotStatus(t) ==
    /\ pc[t] = "Check snapshot status"
    /\ \/ \E s \in SnapshotStates :
            /\ s \in NonTerminalStates => nPending[t] < MaxPolls
            /\ TaskReturns(t, checkSnapshotProgressReturns(event[t], s))
            /\ dest' = [dest EXCEPT ![t] =
                          [WithCredentials(t, @) EXCEPT
                              !.polled = event[t].destinationSnapshotId]]
            /\ nChecks' = [nChecks EXCEPT ![t] = @ + 1]
            /\ nPending' = [nPending EXCEPT ![t] = IF s \in NonTerminalStates THEN @ + 1 ELSE @]
            /\ elapsed' = [elapsed EXCEPT ![t] = 0]
       \/ \E e \in FunctionErrors :
            /\ TaskErrors(t, e)
            /\ UNCHANGED <<pollvars, dest>>
       \/ \E e \in RetryErrors :
            /\ serviceFaults
            /\ TaskErrors(t, e)
            /\ elapsed' = [elapsed EXCEPT ![t] =
                             IF ShouldRetry(e, retryCount[t])
                             THEN @ + BackoffInterval(retryCount[t]) ELSE @]
            /\ UNCHANGED <<nChecks, nPending, dest>>
    /\ UNCHANGED <<kvars, serviceFaults, successCalls, failureCalls,
                   reported, sourceImage, auxvars>>

\* 'Is snapshot ready?'
IsSnapshotReady(t) ==
    /\ pc[t] = "Is snapshot ready?"
    /\ pc' = [pc EXCEPT ![t] = ProgressChoice(event[t].snapshotState)]
    /\ UNCHANGED <<kvars, event, retryCount, waits, last, pollvars,
                   serviceFaults, successCalls, failureCalls,
                   reported, sourceImage, dest, auxvars>>

\* Mutant of Wait: the wait gives up after MaxPolls pending results.
WaitWithDeadline(t) ==
    /\ pc[t] = "Wait"
    /\ pc' = [pc EXCEPT ![t] = IF nPending[t] >= MaxPolls THEN "Copy failed"
                                ELSE NextState("Wait")]
    /\ elapsed' = [elapsed EXCEPT ![t] = @ + WaitSeconds]
    /\ UNCHANGED <<kvars, event, retryCount, waits, last, nChecks, nPending,
                   serviceFaults, successCalls, failureCalls,
                   reported, sourceImage, dest, auxvars>>

\* 'Wait'
Wait(t) ==
    /\ pc[t] = "Wait"
    /\ pc' = [pc EXCEPT ![t] = NextState("Wait")]
    /\ elapsed' = [elapsed EXCEPT ![t] = @ + WaitSeconds]
    /\ UNCHANGED <<kvars, event, retryCount, waits, last, nChecks, nPending,
                   serviceFaults, successCalls, failureCalls,
                   reported, sourceImage, dest, auxvars>>

\* 'Register AMI' -> exports.registerImage: the role is assumed, registerImage
\* is called, then createTags for the image and the snapshot; the document
\* returns with destinationImageId set.  A throw before registerImage returned
\* leaves nothing behind; a throw of createTags leaves the image, untagged.
RegisterAMI(t) ==
    /\ pc[t] = "Register AMI"
    /\ \/ /\ TaskReturns(t, registerImageReturns(event[t], ImageCopyId(t)))
          /\ dest' = [dest EXCEPT ![t] = Tagged(t, Registered(t, WithCredentials(t, @)))]
       \/ \E e \in FunctionErrors :
            /\ TaskErrors(t, e)
            /\ \/ UNCHANGED dest
               \/ dest' = [dest EXCEPT ![t] = Registered(t, WithCredentials(t, @))]
       \/ \E e \in RetryErrors, ran \in BOOLEAN :
            /\ serviceFaults
            /\ TaskErrors(t, e)
            /\ dest' = [dest EXCEPT ![t] =
                          IF ran THEN Tagged(t, Registered(t, WithCredentials(t, @))) ELSE @]
    /\ UNCHANGED <<kvars, pollvars, serviceFaults, successCalls, failureCalls,
                   reported, sourceImage, auxvars>>

\* 'Job successful' -> exports.notifySuccess: putJobSuccessResult(event.jobId).
\* The handler returns nothing the later states read.
JobSuccessful(t) ==
    /\ pc[t] = "Job successful"
    /\ \/ /\ successCalls' = [successCalls EXCEPT ![t] = @ + 1]
          /\ reported' = [reported EXCEPT ![t] = @ \cup {SuccessReport(event[t])}]
          /\ TaskReturns(t, event[t])
       \/ \E e \in FunctionErrors :
            /\ TaskErrors(t, e)
            /\ UNCHANGED <<successCalls, reported>>
       \/ \E e \in RetryErrors, ran \in BOOLEAN :
            /\ serviceFaults
            /\ TaskErrors(t, e)
            /\ successCalls' = [successCalls EXCEPT ![t] = IF ran THEN @ + 1 ELSE @]
            /\ reported' = [reported EXCEPT ![t] =
                              IF ran THEN @ \cup {SuccessReport(event[t])} ELSE @]
    /\ UNCHANGED <<kvars, pollvars, serviceFaults, failureCalls, sourceImage,
                   dest, auxvars>>

\* 'Copy failed' -> exports.notifyFailure: putJobFailureResult(event.jobId, ...),
\* then the Fail state.
CopyFailed(t) ==
    /\ pc[t] = "Copy failed"
    /\ \/ /\ failureCalls' = [failureCalls EXCEPT ![t] = @ + 1]
          /\ reported' = [reported EXCEPT ![t] = @ \cup {FailureReport(event[t])}]
          /\ TaskReturns(t, event[t])
       \/ \E e \in FunctionErrors :
            /\ TaskErrors(t, e)
            /\ UNCHANGED <<failureCalls, reported>>
       \/ \E e \in RetryErrors, ran \in BOOLEAN :
            /\ serviceFaults
            /\ TaskErrors(t, e)
            /\ failureCalls' = [failureCalls EXCEPT ![t] = IF ran THEN @ + 1 ELSE @]
            /\ reported' = [reported EXCEPT ![t] =
                              IF ran THEN @ \cup {FailureReport(event[t])} ELSE @]
    /\ UNCHANGED <<kvars, pollvars, serviceFaults, successCalls, sourceImage,
                   dest, auxvars>>

\* Somebody changes the source image (its tags) while the pipeline runs.
SourceImageChanges ==
    /\ sourceImage = "v1"
    /\ sourceImage' = "v2"
    /\ UNCHANGED <<kvars, pc, event, retryCount, waits, last, pollvars,
                   serviceFaults, successCalls, failureCalls, reported, dest,
                   auxvars>>

Next ==
    \/ SourceImageChanges
    \/ \E t \in Targets :
        \/ KickoffRead(t)
        \/ KickoffResolve(t)
        \/ KickoffDescribe(t)
        \/ KickoffShare(t)
        \/ KickoffStartExecution(t)
        \/ KickoffCatch(t)
        \/ StartSnapshotCopy(t)
        \/ CheckSnapshotStatus(t)
        \/ IsSnapshotReady(t)
        \/ Wait(t)
        \/ RegisterAMI(t)
        \/ JobSuccessful(t)
        \/ CopyFailed(t)

Spec == Init /\ [][Next]_vars

FanOutSpec == FanOutInit /\ [][Next]_vars


\* ------------------------------------------- manifest resolution on its own
\* kickoff's 'Obtain AMI ID from manifest' for every manifest of PairLists
\* and every operating region: nothing else runs.
pipevars == <<kpc, kami, kfail, described, kidx, perms, manifestReads, started,
              pc, event, retryCount, waits, last, pollvars, serviceFaults,
              successCalls, failureCalls, reported, sourceImage, dest>>

ManifestInit ==
    /\ InitPipeline({}, FALSE)
    /\ \E pairs \in PairLists, r \in RegionNames :
         /\ manifest = ArtifactId(pairs)
         /\ mf = [NoManifest EXCEPT !.pc = "manifest", !.pairs = pairs,
                                    !.artifactId = ArtifactId(pairs), !.region = r]
    /\ kms = NoKms
    /\ run = [r \in Runs |-> IdleRun]
    /\ harness = NoHarness
    /\ copyTasks = NoCopyTasks

\* const amiMap = getAmiIDsByRegion(JSON.parse(manifest));
ManifestParse ==
    /\ mf.pc = "manifest"
    /\ mf' = [mf EXCEPT !.pc = "parsed", !.images = getAmiIDsByRegion(mf.artifactId)]
    /\ UNCHANGED <<manifest, pipevars, keyvars, harness, copyTasks>>

\* const amiId = amiMap[region];
ManifestLookup ==
    /\ mf.pc = "parsed"
    /\ mf' = [mf EXCEPT !.pc = "resolved", !.amiId = Get(mf.images, mf.region)]
    /\ UNCHANGED <<manifest, pipevars, keyvars, harness, copyTasks>>

ManifestNext == ManifestParse \/ ManifestLookup

ManifestSpec == ManifestInit /\ [][ManifestNext]_vars

\* ------------------------------------------ copySnapshot, call by call
\* exports.copySnapshot as the sequence of its awaited calls, for the runs of
\* Runs against one destination account and region: between two calls of one
\* run the other run may make calls of its own.  Every call returns or throws;
\* what the handler throws is a function error of 'Start snapshot copy'.

\* kms.describeKey({KeyId: alias}): NotFoundException when nothing has the alias.
DescribeKey(alias) == IF alias = None THEN NotFound ELSE None

\* if (e.code === 'NotFoundException') { create } else { throw (e) }
CatchCreates(code) == code = NotFound

\* Mutant of CreateAlias: an alias that exists is moved to the new key.
CreateAliasReplaces(alias, keyId) == [error |-> None, alias |-> keyId]

\* kms.createAlias({AliasName, TargetKeyId}): AlreadyExistsException when the
\* alias exists, and the alias stays where it is.
CreateAlias(alias, keyId) ==
    IF alias = None
    THEN [error |-> None, alias |-> keyId]
    ELSE [error |-> AlreadyExists, alias |-> alias]

\* What the state machine does with an error 'Start snapshot copy' throws on
\* its first attempt.
Route(err) ==
    IF ShouldRetry(err, 0) THEN "retry"
    ELSE IF CatchTarget("Start snapshot copy") # None
         THEN CatchTarget("Start snapshot copy")
         ELSE "ExecutionFailed"

\* Mutant of Throws: the error is logged and the handler goes on to the copy.
ThrowsSwallowed(r, step, err) ==
    run' = [run EXCEPT ![r].pc = IF step = "copySnapshot" THEN "threw" ELSE "copySnapshot",
                       ![r].failedAt = step,
                       ![r].error = err, ![r].route = Route(err)]

\* The handler rejects with err, thrown by the call named step.
Throws(r, step, err) ==
    run' = [run EXCEPT ![r].pc = "threw", ![r].failedAt = step,
                       ![r].error = err, ![r].route = Route(err)]

Ended(r) == run[r].pc \in {"returned", "threw"}

\* getCallerIdentity, describeImages, assumeRole; 'after' are the runs that
\* had ended when this one began.
KeyBegin(r) ==
    /\ run[r].pc = "idle"
    /\ \/ run' = [run EXCEPT ![r].pc = "describeKey",
                             ![r].after = {q \in Runs : Ended(q)}]
       \/ \E e \in FunctionErrors :
            run' = [run EXCEPT ![r].pc = "threw", ![r].failedAt = "assumeRole",
                               ![r].error = e, ![r].route = Route(e),
                               ![r].after = {q \in Runs : Ended(q)}]
    /\ UNCHANGED <<manifest, pipevars, mf, kms, harness, copyTasks>>

\* try { await kms.describeKey(...)
KeyDescribeKey(r) ==
    /\ run[r].pc = "describeKey"
    /\ \/ /\ DescribeKey(kms.alias) = None
          /\ run' = [run EXCEPT ![r].pc = "putKeyPolicy", ![r].found = "found"]
       \/ /\ DescribeKey(kms.alias) # None
          /\ IF CatchCreates(DescribeKey(kms.alias))
             THEN run' = [run EXCEPT ![r].pc = "createKey", ![r].found = "missing"]
             ELSE Throws(r, "describeKey", DescribeKey(kms.alias))
       \/ \E e \in FunctionErrors : Throws(r, "describeKey", e)
    /\ UNCHANGED <<manifest, pipevars, mf, kms, harness, copyTasks>>

\* await kms.putKeyPolicy(...) } catch (e) {...}: the same catch block takes
\* what putKeyPolicy throws.
KeyPutKeyPolicy(r) ==
    /\ run[r].pc = "putKeyPolicy"
    /\ \/ /\ kms' = [kms EXCEPT !.puts = @ + 1]
          /\ run' = [run EXCEPT ![r].pc = "copySnapshot", ![r].policyPut = TRUE]
       \/ \E e \in FunctionErrors \cup {NotFound} :
            /\ IF CatchCreates(e)
               THEN run' = [run EXCEPT ![r].pc = "createKey", ![r].putNotFound = TRUE]
               ELSE Throws(r, "putKeyPolicy", e)
            /\ UNCHANGED kms
    /\ UNCHANGED <<manifest, pipevars, mf, harness, copyTasks>>

\* createKmsKey: client.createKey(...)
KeyCreateKey(r) ==
    /\ run[r].pc = "createKey"
    /\ \/ /\ kms' = [kms EXCEPT !.keys = @ \cup {KeyOf(r)}]
          /\ run' = [run EXCEPT ![r].pc = "createAlias", ![r].created = KeyOf(r)]
       \/ \E e \in FunctionErrors :
            /\ Throws(r, "createKey", e)
            /\ UNCHANGED kms
    /\ UNCHANGED <<manifest, pipevars, mf, harness, copyTasks>>

\* kms.createAlias({AliasName: event.kmsKeyAlias, TargetKeyId: kmsKeyId})
KeyCreateAlias(r) ==
    /\ run[r].pc = "createAlias"
    /\ \/ /\ kms' = [kms EXCEPT !.alias = CreateAlias(kms.alias, run[r].created).alias]
          /\ IF CreateAlias(kms.alias, run[r].created).error = None
             THEN run' = [run EXCEPT ![r].pc = "copySnapshot", ![r].aliasCreated = TRUE]
             ELSE Throws(r, "createAlias", CreateAlias(kms.alias, run[r].created).error)
       \/ \E e \in FunctionErrors :
            /\ Throws(r, "createAlias", e)
            /\ UNCHANGED kms
    /\ UNCHANGED <<manifest, pipevars, mf, harness, copyTasks>>

\* ec2.copySnapshot({..., KmsKeyId: event.kmsKeyAlias}): the copy is encrypted
\* under the key the alias has at the time of the call;
\* event.destinationSnapshotId = copySnapshotResponse.SnapshotId; return event
KeyCopySnapshot(r) ==
    /\ run[r].pc = "copySnapshot"
    /\ kms' = [kms EXCEPT !.copyRequests = @ \cup {r}]
    /\ \/ run' = [run EXCEPT ![r].pc = "returned", ![r].resolved = kms.alias,
                             ![r].destinationSnapshotId = <<"snap", r>>]
       \/ \E e \in FunctionErrors : Throws(r, "copySnapshot", e)
    /\ UNCHANGED <<manifest, pipevars, mf, harness, copyTasks>>

KeyInit ==
    /\ InitPipeline({}, FALSE)
    /\ manifest = ListedManifest
    /\ mf = NoManifest
    /\ kms = NoKms
    /\ run = [r \in Runs |-> IdleRun]
    /\ harness = NoHarness
    /\ copyTasks = NoCopyTasks

KeyNext ==
    \E r \in Runs :
        \/ KeyBegin(r)
        \/ KeyDescribeKey(r)
        \/ KeyPutKeyPolicy(r)
        \/ KeyCreateKey(r)
        \/ KeyCreateAlias(r)
        \/ KeyCopySnapshot(r)

KeySpec == KeyInit /\ [][KeyNext]_vars

\* ------------------------------------------ the test stage's harness
\* testImage/index.js: main, call by call.  Every awaited call returns or
\* rejects; the harness runs once for the AMI the build stage made, which has
\* no TestStatus tag yet.
ExitOK == 0
ExitHarnessError == 2
TestStatusTagValuePassed == "PASSED"
TestStatusTagValueFailed == "FAILED"

\* InSpec's exit codes: passed, could not run, a control failed.
InspecExitCodes == {0, 1, 100}

testframe == <<manifest, pipevars, mf, keyvars, copyTasks>>

\* if (process.exitCode === ExitOK) PASSED else FAILED
StatusTagValue(exitCode) ==
    IF exitCode = Code(ExitOK) THEN TestStatusTagValuePassed ELSE TestStatusTagValueFailed

\* withTestSecurityGroupAndKey: catch (err) { reject(err) } finally { cleanup }.
\* reject settles the promise unless it is settled already.
Rejects(h, step) ==
    [h EXCEPT !.pc = "cleanup", !.pending = step,
              !.settled = IF @ = None THEN "rejected" ELSE @]

\* Mutant of ThrowsInInstance: the error goes straight to the caller's catch.
ThrowsInInstanceNoFinally(h, step) ==
    [h EXCEPT !.pc = "cleanup", !.pending = step,
              !.settled = IF @ = None THEN "rejected" ELSE @]

\* withTestInstance: what runInstances, waitFor or the callback throws passes
\* through the finally block, which terminates the instance first.
ThrowsInInstance(h, step) == [h EXCEPT !.pc = "terminate", !.pending = step]

\* const amis = await getAmiIDsByRegion(ManifestFile); a rejection is caught
\* by main's catch.
TestReadManifest ==
    /\ harness.pc = "readManifest"
    /\ \/ harness' = [harness EXCEPT !.pc = "tmpFile"]
       \/ harness' = [harness EXCEPT !.pc = "settled", !.pending = "readManifest",
                                     !.caught = TRUE,
                                     !.exitCode = Code(ExitHarnessError)]
    /\ UNCHANGED testframe

\* tmp.file((err, keyPath, keyfd) => { if (err) { reject(err); } ...: there
\* is no return after reject, the callback goes on without a key file.
TestTmpFile ==
    /\ harness.pc = "tmpFile"
    /\ \/ harness' = [harness EXCEPT !.pc = "describeSubnets", !.keyfd = "open"]
       \/ harness' = [harness EXCEPT !.pc = "describeSubnets", !.keyfd = Undefined[1],
                                     !.settled = "rejected"]
    /\ UNCHANGED testframe

TestDescribeSubnets ==
    /\ harness.pc = "describeSubnets"
    /\ \/ harness' = [harness EXCEPT !.pc = "createSecurityGroup"]
       \/ harness' = Rejects(harness, "describeSubnets")
    /\ UNCHANGED testframe

TestCreateSecurityGroup ==
    /\ harness.pc = "createSecurityGroup"
    /\ \/ harness' = [harness EXCEPT !.pc = "authorizeSecurityGroupIngress",
                                     !.securityGroup = TRUE]
       \/ harness' = Rejects(harness, "createSecurityGroup")
    /\ UNCHANGED testframe

TestAuthorizeSecurityGroupIngress ==
    /\ harness.pc = "authorizeSecurityGroupIngress"
    /\ \/ harness' = [harness EXCEPT !.pc = "createKeyPair"]
       \/ harness' = Rejects(harness, "authorizeSecurityGroupIngress")
    /\ UNCHANGED testframe

TestCreateKeyPair ==
    /\ harness.pc = "createKeyPair"
    /\ \/ harness' = [harness EXCEPT !.pc = "writeKey", !.keyPair = TRUE]
       \/ harness' = Rejects(harness, "createKeyPair")
    /\ UNCHANGED testframe

\* await promisify(fs.write)(keyfd, keyPair.KeyMaterial): throws when tmp.file
\* gave no descriptor.
TestWriteKey ==
    /\ harness.pc = "writeKey"
    /\ \/ /\ harness.keyfd = "open"
          /\ harness' = [harness EXCEPT !.pc = "runInstances"]
       \/ harness' = Rejects(harness, "writeKey")
    /\ UNCHANGED testframe

\* amiId = amis[AwsRegion]; withTestInstance: ec2.runInstances({ImageId: amiId, ...})
TestRunInstances ==
    /\ harness.pc = "runInstances"
    /\ LET amiId == Get(getAmiIDsByRegion(manifest), region)
       IN \/ /\ amiId # Undefined
             /\ harness' = [harness EXCEPT !.pc = "waitForRunning", !.amiId = amiId,
                                           !.instance = TRUE]
          \/ harness' = [ThrowsInInstance(harness, "runInstances") EXCEPT !.amiId = amiId]
    /\ UNCHANGED testframe

\* await ec2.waitFor('instanceRunning', ...)
TestWaitForRunning ==
    /\ harness.pc = "waitForRunning"
    /\ \/ harness' = [harness EXCEPT !.pc = "describeInstances"]
       \/ harness' = ThrowsInInstance(harness, "waitForRunning")
    /\ UNCHANGED testframe

\* runTest: ec2.describeInstances
TestDescribeInstances ==
    /\ harness.pc = "describeInstances"
    /\ \/ harness' = [harness EXCEPT !.pc = "waitPort"]
       \/ harness' = ThrowsInInstance(harness, "describeInstances")
    /\ UNCHANGED testframe

\* runTest: await waitPort({host, port: 22, timeout: SSHWaitTimeout}) resolves
\* with whether the port opened in time, and rejects on any other error.
TestWaitPort ==
    /\ harness.pc = "waitPort"
    /\ \/ \E open \in BOOLEAN :
            harness' = [harness EXCEPT !.pc = "inspec", !.sshOpen = open]
       \/ harness' = ThrowsInInstance(harness, "waitPort")
    /\ UNCHANGED testframe

\* runTest: spawn('inspec', ...); 'close' resolves with the exit code, which
\* is null when a signal ended InSpec, and process.exitCode = await
\* runTest(...); 'error' rejects.  InSpec passes only on a host it can reach.
TestInspec ==
    /\ harness.pc = "inspec"
    /\ \/ \E c \in InspecExitCodes :
            /\ c = ExitOK => harness.sshOpen = TRUE
            /\ harness' = [harness EXCEPT !.pc = "terminate", !.inspec = Code(c),
                                          !.exitCode = Code(c)]
       \/ harness' = [harness EXCEPT !.pc = "terminate", !.inspec = NoExitCode,
                                     !.signal = "SIGKILL", !.exitCode = NoExitCode]
       \/ harness' = ThrowsInInstance(harness, "inspec")
    /\ UNCHANGED testframe

\* try { if (instance) { await ec2.terminateInstances(...); await
\* ec2.waitFor('instanceTerminated', ...); } } catch (err) { console.log(err); }
TerminateOutcomes(h) ==
    IF h.instance
    THEN {[h EXCEPT !.calls = Append(@, "terminateInstances")],
          [h EXCEPT !.calls = @ \o <<"terminateInstances", "waitFor instanceTerminated">>],
          [h EXCEPT !.calls = @ \o <<"terminateInstances", "waitFor instanceTerminated">>,
                    !.terminated = TRUE]}
    ELSE {h}

\* withTestInstance's finally: terminate the instance when there is one, log
\* what that throws; then the pending error goes on to the caller's catch, or
\* main's callback goes on to the status tag value.
TestTerminate ==
    /\ harness.pc = "terminate"
    /\ \E h \in TerminateOutcomes(harness) :
            IF harness.pending # None
            THEN harness' = Rejects(h, harness.pending)
            ELSE harness' = [h EXCEPT !.pc = "describeImages",
                                      !.statusTagValue = StatusTagValue(harness.exitCode)]
    /\ UNCHANGED testframe

\* tagImage: ec2.describeImages({ImageIds: [amiId]})
TestDescribeImages ==
    /\ harness.pc = "describeImages"
    /\ \/ harness' = [harness EXCEPT !.pc = "createTags"]
       \/ harness' = Rejects(harness, "describeImages")
    /\ UNCHANGED testframe

\* tagImage: ec2.createTags({Resources: [amiId].concat(snapshots), Tags})
TestCreateTags ==
    /\ harness.pc = "createTags"
    /\ \/ harness' = [harness EXCEPT !.pc = "writeFiles",
                                     !.tag = harness.statusTagValue,
                                     !.snapshotTag = harness.statusTagValue]
       \/ harness' = Rejects(harness, "createTags")
    /\ UNCHANGED testframe

\* if (process.env.X) { await writeFile(XFile, process.env.X); }, three times
TestWriteFile ==
    /\ harness.pc = "writeFiles"
    /\ LET i == harness.fileIdx + 1
           next == IF i = Len(VersionFiles) THEN "cleanup" ELSE "writeFiles"
       IN IF VersionFiles[i] \in harness.env
          THEN \/ harness' = [harness EXCEPT !.pc = next, !.fileIdx = i,
                                             !.files = @ \cup {VersionFiles[i]}]
               \/ harness' = Rejects(harness, "writeFile")
          ELSE harness' = [harness EXCEPT !.pc = next, !.fileIdx = i]
    /\ UNCHANGED testframe

\* try { if (securityGroup) { await ec2.deleteSecurityGroup(...) }
\*       if (keyPair) { await ec2.deleteKeyPair(...) } } catch (err) { log }:
\* a deleteSecurityGroup that throws leaves the try block.
CleanupOutcomes(h) ==
    LET sg == IF h.securityGroup THEN <<"deleteSecurityGroup">> ELSE <<>>
        kp == IF h.keyPair THEN <<"deleteKeyPair">> ELSE <<>>
    IN {[h EXCEPT !.calls = @ \o sg \o kp]}
         \cup (IF h.securityGroup THEN {[h EXCEPT !.calls = @ \o sg]} ELSE {})

\* withTestSecurityGroupAndKey's finally: delete the security group and the
\* key pair when they were made, log what that throws, resolve(response).
TestCleanup ==
    /\ harness.pc = "cleanup"
    /\ \E h \in CleanupOutcomes(harness) :
         harness' = [h EXCEPT !.pc = "settled",
                              !.settled = IF @ = None THEN "resolved" ELSE @]
    /\ UNCHANGED testframe

\* main's catch (err) { process.exitCode = 2; }: runs once the promise is
\* rejected, while the callback may still be cleaning up.
TestMainCatch ==
    /\ harness.settled = "rejected"
    /\ ~harness.caught
    /\ harness' = [harness EXCEPT !.caught = TRUE, !.exitCode = Code(ExitHarnessError)]
    /\ UNCHANGED testframe

\* The exit code of the process when nothing is left to run: process.exitCode,
\* and 0 when that is undefined or null.
ProcessExitCode(h) == IF h.exitCode = NoExitCode THEN ExitOK ELSE h.exitCode[1]

\* main has ended and the callback has nothing left to do.
TestEnded ==
    /\ harness.pc = "settled"
    /\ harness.settled = "rejected" => harness.caught

TestInit ==
    /\ InitPipeline({}, FALSE)
    /\ manifest \in KickoffManifests
    /\ mf = NoManifest
    /\ kms = NoKms
    /\ run = [r \in Runs |-> IdleRun]
    /\ \E env \in SUBSET {VersionFiles[i] : i \in 1..Len(VersionFiles)} :
         harness = [NoHarness EXCEPT !.pc = "readManifest", !.env = env]
    /\ copyTasks = NoCopyTasks

TestNext ==
    \/ TestReadManifest
    \/ TestTmpFile
    \/ TestDescribeSubnets
    \/ TestCreateSecurityGroup
    \/ TestAuthorizeSecurityGroupIngress
    \/ TestCreateKeyPair
    \/ TestWriteKey
    \/ TestRunInstances
    \/ TestWaitForRunning
    \/ TestDescribeInstances
    \/ TestWaitPort
    \/ TestInspec
    \/ TestTerminate
    \/ TestDescribeImages
    \/ TestCreateTags
    \/ TestWriteFile
    \/ TestCleanup
    \/ TestMainCatch

TestSpec == TestInit /\ [][TestNext]_vars

\* ------------------------------------- pipeline.ts: the Parallel machine
\* AmiCopyStateMachine of pipeline.ts: the Parallel state 'CopyTasks' with one
\* branch for each (account, region), then PutJobSuccessTask.  No task has a
\* retry or a catch: an error of a task of a branch fails the Parallel state
\* and with it the execution.
parframe == <<manifest, pipevars, mf, keyvars, harness>>

\* progressChoice of a branch: .when('$.snapshotState' = 'completed',
\* registerImageTask).otherwise(waitStep.next(checkSnapshotTask))
EvalSnapshotProgress(snapshotState) ==
    IF snapshotState = "completed" THEN "RegisterImageTask" ELSE "WaitAndRecheck"

\* What describeSnapshots can report after it has reported prev: a snapshot
\* that is completed or in error stays so.
StatesAfter(prev) == IF prev \in {"completed", "error"} THEN {prev} ELSE SnapshotStates

\* A task of branch t throws: the Parallel state fails, the execution fails.
ParallelFails == copyTasks' = [copyTasks EXCEPT !.exec = "Failed"]

\* CopySnapshotTask<account><region>
ParCopySnapshot(t) ==
    /\ copyTasks.exec = "CopyTasks"
    /\ copyTasks.pc[t] = "CopySnapshotTask"
    /\ \/ copyTasks' = [copyTasks EXCEPT !.pc[t] = "CheckSnapshotTask"]
       \/ ParallelFails
    /\ UNCHANGED parframe

\* CheckSnapshotTask<account><region>
ParCheckSnapshot(t) ==
    /\ copyTasks.exec = "CopyTasks"
    /\ copyTasks.pc[t] = "CheckSnapshotTask"
    /\ \/ \E s \in StatesAfter(copyTasks.snapshotState[t]) :
            /\ s # "completed" => copyTasks.checks[t] < MaxPolls
            /\ copyTasks' = [copyTasks EXCEPT !.pc[t] = "EvalSnapshotProgress",
                                              !.snapshotState[t] = s,
                                              !.checks[t] = @ + 1]
       \/ ParallelFails
    /\ UNCHANGED parframe

\* EvalSnapshotProgress<account><region>
ParEvalSnapshotProgress(t) ==
    /\ copyTasks.exec = "CopyTasks"
    /\ copyTasks.pc[t] = "EvalSnapshotProgress"
    /\ copyTasks' = [copyTasks EXCEPT
                        !.pc[t] = EvalSnapshotProgress(copyTasks.snapshotState[t])]
    /\ UNCHANGED parframe

\* WaitAndRecheck<account><region>
ParWaitAndRecheck(t) ==
    /\ copyTasks.exec = "CopyTasks"
    /\ copyTasks.pc[t] = "WaitAndRecheck"
    /\ copyTasks' = [copyTasks EXCEPT !.pc[t] = "CheckSnapshotTask"]
    /\ UNCHANGED parframe

\* RegisterImageTask<account><region>, the end of the branch
ParRegisterImage(t) ==
    /\ copyTasks.exec = "CopyTasks"
    /\ copyTasks.pc[t] = "RegisterImageTask"
    /\ \/ copyTasks' = [copyTasks EXCEPT !.pc[t] = "End"]
       \/ ParallelFails
    /\ UNCHANGED parframe

\* copyTasksParallel.next(successTask): once every branch has ended
ParPutJobSuccess ==
    /\ copyTasks.exec = "CopyTasks"
    /\ \A t \in Targets : copyTasks.pc[t] = "End"
    /\ \/ copyTasks' = [copyTasks EXCEPT !.exec = "Succeeded", !.successCalls = @ + 1]
       \/ ParallelFails
    /\ UNCHANGED parframe

ParallelInit ==
    /\ InitPipeline({}, FALSE)
    /\ manifest = ListedManifest
    /\ mf = NoManifest
    /\ kms = NoKms
    /\ run = [r \in Runs |-> IdleRun]
    /\ harness = NoHarness
    /\ copyTasks = [NoCopyTasks EXCEPT !.exec = "CopyTasks",
                                       !.pc = [t \in Targets |-> "CopySnapshotTask"]]

ParallelNext ==
    \/ ParPutJobSuccess
    \/ \E t \in Targets :
        \/ ParCopySnapshot(t)
        \/ ParCheckSnapshot(t)
        \/ ParEvalSnapshotProgress(t)
        \/ ParWaitAndRecheck(t)
        \/ ParRegisterImage(t)

ParallelSpec == ParallelInit /\ [][ParallelNext]_vars

\* ================================================================== claims

\* What CodePipeline has received for the target's job id.
Reports(t) == successCalls[t] + failureCalls[t]

\* The execution is in, or died in, the success notifier / the failure path.
ReachedSuccess(t) ==
    \/ pc[t] \in {"Job successful", "Succeeded"}
    \/ pc[t] = "ExecutionFailed" /\ last[t].state = "Job successful"

ReachedFailure(t) ==
    \/ pc[t] \in {"Copy failed", "Fail"}
    \/ pc[t] = "ExecutionFailed" /\ last[t].state = "Copy failed"

\* Nothing of the target is running any more.
Halted(t) ==
    /\ kpc[t] \in {"done", "threw"}
    /\ pc[t] \in {"NotStarted"} \cup TerminalStates

\* C1: no job id ever gets both a success and a failure report: a kickoff that
\* went to its catch block has started no execution, an execution that got to
\* 'Job successful' never gets to 'Copy failed' and the other way round, and
\* the two counters of a target are never both positive.
C1_NeverBoth ==
    /\ [](\A t \in Targets :
            /\ ~(successCalls[t] > 0 /\ failureCalls[t] > 0)
            /\ kpc[t] \in {"catch", "threw"} => pc[t] = "NotStarted"
            /\ successCalls[t] > 0 => ReachedSuccess(t)
            /\ (failureCalls[t] > 0 /\ pc[t] # "NotStarted") => ReachedFailure(t))
    /\ [][\A t \in Targets :
            /\ ReachedSuccess(t) => ReachedSuccess(t)'
            /\ ReachedFailure(t) => ReachedFailure(t)']_vars

\* C1 witness: success was reported, the notifier task then failed all the
\* same, and the execution died without a failure report.
C1_Witness ==
    \E t \in Targets :
        /\ pc[t] = "ExecutionFailed"
        /\ last[t].state = "Job successful"
        /\ successCalls[t] > 0
        /\ failureCalls[t] = 0

\* C2 (as claimed): a target whose image was registered and whose execution
\* has ended has had success or failure reported.
C2_RegisteredThenReported ==
    \A t \in Targets :
        (Halted(t) /\ event[t].destinationImageId # None) => Reports(t) >= 1

\* C3 (as claimed): the completion callback is issued at most once per job id.
C3_AtMostOnce ==
    \A t \in Targets : Reports(t) <= 1

\* The target's copy went wrong: the snapshot reported 'error' or a step's
\* error was caught.
TargetFailed(t) ==
    event[t].snapshotState = "error" \/ event[t].errorInfo # None

\* C4 (as claimed), in the fan-out: when one target's copy has failed, every
\* other target whose image was registered and whose execution has ended has
\* exactly one report.
C4_OthersReportOnce ==
    \A t, u \in Targets :
        (t # u /\ TargetFailed(t) /\ Halted(u) /\ event[u].destinationImageId # None)
            => Reports(u) = 1

\* The part of C4 that is about interference: a step changes the kickoff
\* position, execution state, document, counters and reports of one target
\* only (the snapshot permissions only grow).
PerTarget(t) ==
    <<kpc[t], kidx[t], pc[t], event[t], retryCount[t], waits[t], last[t],
      elapsed[t], nChecks[t], nPending[t], successCalls[t], failureCalls[t]>>

FanOutFrame ==
    [][/\ \A t, u \in Targets :
             (t # u /\ PerTarget(t)' # PerTarget(t)) => PerTarget(u)' = PerTarget(u)
       /\ perms \subseteq perms']_vars

\* C5: the poller's rule.  A status check that returned leads to the choice;
\* the choice leads to 'Register AMI' on 'completed', to 'Copy failed' on
\* 'error' and to 'Wait' on anything else; 'Wait' leads back to the check.
C5_PollerRule ==
    [][\A t \in Targets :
         /\ (pc[t] = "Check snapshot status" /\ nChecks'[t] # nChecks[t])
                => pc'[t] = "Is snapshot ready?"
         /\ (pc[t] = "Is snapshot ready?" /\ pc'[t] # pc[t]) =>
                /\ event[t].snapshotState = "completed" => pc'[t] = "Register AMI"
                /\ event[t].snapshotState = "error" => pc'[t] = "Copy failed"
                /\ event[t].snapshotState \notin {"completed", "error"} => pc'[t] = "Wait"
         /\ (pc[t] = "Wait" /\ pc'[t] # pc[t]) => pc'[t] = "Check snapshot status"]_vars

\* C5 witness: a check reported 'pending' and the execution is waiting.
C5_Witness ==
    \E t \in Targets : pc[t] = "Wait" /\ event[t].snapshotState = "pending"

\* C6: the poller's cadence.  Registration is entered after exactly one more
\* status check than there were non-terminal results, and a status check that
\* returns after an earlier one does so at least the wait interval later.
C6_Cadence ==
    /\ [](\A t \in Targets :
            pc[t] = "Register AMI" => nChecks[t] = nPending[t] + 1)
    /\ [][\A t \in Targets :
            (nChecks'[t] = nChecks[t] + 1 /\ nChecks[t] >= 1) => elapsed[t] >= 30]_vars

\* C6 witness: pending, pending, completed: three checks, then registration.
C6_Witness ==
    \E t \in Targets :
        pc[t] = "Register AMI" /\ nChecks[t] = 3 /\ nPending[t] = 2

\* C7: the order of the steps.  No status check before the copy returned its
\* snapshot id; 'Register AMI' only on a 'completed' check; success only after
\* 'Register AMI' returned; a copy, check or register that ends in an error
\* is caught into 'Copy failed', the failure notifier.
C7_StepOrder ==
    \A t \in Targets :
        /\ (pc[t] = "Check snapshot status" \/ nChecks[t] > 0)
              => event[t].destinationSnapshotId # None
        /\ pc[t] = "Register AMI" => event[t].snapshotState = "completed"
        /\ event[t].destinationImageId # None => event[t].snapshotState = "completed"
        /\ (pc[t] = "Job successful" \/ successCalls[t] > 0)
              => event[t].destinationImageId # None
        /\ (/\ last[t].state \in {"Start snapshot copy", "Check snapshot status", "Register AMI"}
            /\ last[t].outcome \notin {"ok", "retry"})
              => /\ pc[t] = "Copy failed"
                 /\ event[t].errorInfo = last[t].error

\* C7 witness: registration failed after a completed copy and was caught.
C7_Witness ==
    \E t \in Targets :
        /\ pc[t] = "Copy failed"
        /\ last[t].state = "Register AMI"
        /\ last[t].outcome = "caught"
        /\ event[t].snapshotState = "completed"

\* C8: the backoff.  The waits of a task state are 2, 4, 8, 16, 32 seconds in
\* this order, one per retry, and a task that returned after five failures
\* returned on its sixth attempt after exactly these five waits.
C8_Backoff ==
    \A t \in Targets :
        /\ Len(waits[t]) = retryCount[t]
        /\ \A i \in 1..Len(waits[t]) : i <= 5 => waits[t][i] = <<2, 4, 8, 16, 32>>[i]
        /\ (last[t].outcome = "ok" /\ last[t].retries = 5)
              => last[t].waits = <<2, 4, 8, 16, 32>>

\* C8 witness: a task returned on its sixth attempt.
C8_Witness ==
    \E t \in Targets : last[t].outcome = "ok" /\ last[t].retries = 5

C10_AuthToFailurePath ==
    \A t \in Targets :
        (last[t].error \in AuthErrors /\ last[t].state # "Copy failed")
            => last[t].outcome = "caught"


\* No colon and no comma inside a region or an id, and no region twice.
HasDelimiter(str) == \E i \in 1..Len(str) : str[i] \in {":", ","}

WellFormedPairs(pairs) ==
    /\ \A i \in 1..Len(pairs) : ~HasDelimiter(pairs[i][1]) /\ ~HasDelimiter(pairs[i][2])
    /\ \A i, j \in 1..Len(pairs) : pairs[i][1] = pairs[j][1] => i = j

\* C15: for a well-formed manifest, the image id resolved for the operating
\* region is the id the manifest pairs with that region.
C15_ManifestResolution ==
    (mf.pc = "resolved" /\ WellFormedPairs(mf.pairs)) =>
        \A i \in 1..Len(mf.pairs) :
            mf.pairs[i][1] = mf.region => mf.amiId = mf.pairs[i][2]

\* C15 witness: "w:1,e:2" resolved for region w gives 1.
C15_Witness ==
    /\ mf.pc = "resolved"
    /\ mf.artifactId = <<"w", ":", "1", ",", "e", ":", "2">>
    /\ mf.region = <<"w">>
    /\ mf.amiId = <<"1">>

\* Without the provisos the resolution does not give the paired id (an id
\* that holds a colon is cut, a region listed twice resolves to its last id).
C15_WithoutProvisos ==
    mf.pc = "resolved" =>
        \A i \in 1..Len(mf.pairs) :
            mf.pairs[i][1] = mf.region => mf.amiId = mf.pairs[i][2]


\* -------------------------------------------------------- kickoff's claims
\* The manifest has no entry for the operating region.
RegionUnlisted == region \notin DOMAIN getAmiIDsByRegion(manifest)

\* The grants of every source snapshot to the account of target t.
GrantsFor(t) ==
    {<<SourceSnapshots[i], destinationAccountId(t)>> : i \in 1..Len(SourceSnapshots)}

\* C16 (as claimed): when the manifest does not list the operating region,
\* kickoff fails at manifest resolution: describeImages is not called with a
\* missing image id, no permission is changed and no execution is started.
C16_RegionNotFound ==
    \A t \in Targets :
        RegionUnlisted =>
            /\ Undefined \notin described[t]
            /\ kfail[t] \notin {"describe", "share", "start"}
            /\ perms = {}
            /\ pc[t] = "NotStarted"

\* C17 (as claimed): no execution is started before every source snapshot has
\* been shared with the account of every target of the fan-out.
C17_SharedWithAllFirst ==
    \A t, u \in Targets : pc[t] # "NotStarted" => GrantsFor(u) \subseteq perms

\* C17 (amended): no execution is started before every source snapshot has
\* been shared with the account of its own target; the grants for another
\* target's account are made by that target's kickoff, whenever it gets there.
C17_SharedWithOwnAccountFirst ==
    /\ \A t \in Targets : pc[t] # "NotStarted" => GrantsFor(t) \subseteq perms
    /\ \A p \in perms :
         \E t \in Targets :
            /\ p[2] = destinationAccountId(t)
            /\ kpc[t] \in {"share", "start", "catch", "done", "threw"}

\* C17 witness: the first target's execution runs while nothing has been
\* shared with the second target's account yet.
C17_Witness ==
    /\ pc["t1"] = "Check snapshot status"
    /\ GrantsFor("t1") \subseteq perms
    /\ GrantsFor("t2") \cap perms = {}

\* C18: a target's execution is started only after the grant for the target's
\* account succeeded on the snapshot of every block-device mapping, and a
\* kickoff whose grant failed starts no execution.
C18_PerTargetSharingOrder ==
    /\ [](\A t \in Targets :
            /\ started[t] > 0 => (kidx[t] = Len(SourceSnapshots) /\ GrantsFor(t) \subseteq perms)
            /\ kfail[t] = "share" => (started[t] = 0 /\ pc[t] = "NotStarted"))
    /\ [][\A t \in Targets :
            started'[t] > started[t] =>
                \A i \in 1..Len(SourceSnapshots) :
                    <<SourceSnapshots[i], destinationAccountId(t)>> \in perms]_vars

\* C18 witness: an execution was started after both grants.
C18_Witness ==
    \E t \in Targets :
        /\ started[t] = 1
        /\ pc[t] = "Start snapshot copy"
        /\ kidx[t] = 2

HasRead(t) == kpc[t] \notin {"none", "read"} /\ kfail[t] # "read"

\* C20 (as claimed): the manifest is read once for the whole fan-out, and no
\* target gets two executions.
C20_ReadOnceForAll ==
    /\ manifestReads <= 1
    /\ \A t \in Targets : started[t] <= 1

\* C20 (amended): every kickoff invocation reads the manifest itself and
\* shares each snapshot with its own target's account once; a target gets at
\* most one execution, exactly one when its kickoff ended with nothing thrown,
\* and no two executions carry the same job id.
C20_OnePerTarget ==
    /\ manifestReads = Cardinality({t \in Targets : HasRead(t)})
    /\ perms = UNION {{<<SourceSnapshots[i], destinationAccountId(t)>> : i \in 1..kidx[t]} :
                         t \in Targets}
    /\ \A t \in Targets :
         /\ started[t] <= 1
         /\ started[t] = 1 <=> pc[t] # "NotStarted"
         /\ (kpc[t] = "done" /\ kfail[t] = None) => started[t] = 1
    /\ \A t, u \in Targets :
         (started[t] = 1 /\ started[u] = 1 /\ event[t].jobId = event[u].jobId) => t = u

\* C20 witness: two targets, two reads of the manifest, one execution each.
C20_Witness ==
    /\ manifestReads = 2
    /\ \A t \in Targets : started[t] = 1 /\ kpc[t] = "done"


\* ------------------------------------------------- the key bootstrap's claims
\* Run r began after run q had ended: the two ran in sequence.
InSequence(q, r) == q \in run[r].after

\* The runs whose bootstrap went through and whose copy was started.
Completed(r) == run[r].pc = "returned"

C12_KeySingularity ==
    (\A r \in Runs : ~run[r].putNotFound) =>
        /\ Cardinality(kms.keys) <= 1
        /\ kms.alias # None => kms.keys = {kms.alias}
        /\ \A r \in Runs : run[r].error # AlreadyExists

\* C13 (as claimed): a run that resolved the alias puts the policy and makes
\* no key and no alias; a key is made only by a run whose describeKey
\* reported the alias missing; NotFoundException never fails a run.
C13_CreateOnlyWhenAliasMissing ==
    \A r \in Runs :
        /\ run[r].found = "found" => run[r].created = None
        /\ run[r].created # None => run[r].found = "missing"
        /\ run[r].pc \in {"createKey", "createAlias"} => run[r].found = "missing"
        /\ run[r].error # NotFound

\* C14 (as claimed): a failure of putKeyPolicy, createKey or createAlias that
\* is not an authorization denial is retried.
C14_BootstrapFailureRetried ==
    \A r \in Runs :
        (/\ run[r].pc = "threw"
         /\ run[r].failedAt \in {"putKeyPolicy", "createKey", "createAlias"}
         /\ run[r].error \notin AuthErrors)
            => run[r].route = "retry"

\* The bootstrap of run r has gone through: the alias was found and the policy
\* put, or a key was made and the alias created for it.
Bootstrapped(r) ==
    \/ run[r].found = "found" /\ run[r].policyPut /\ run[r].created = None
    \/ run[r].created # None /\ run[r].aliasCreated /\ ~run[r].policyPut

\* C29: ec2.copySnapshot is called only by a run whose bootstrap has gone
\* through, with the alias in place; a run that threw before that call has
\* requested no copy and has no destinationSnapshotId, and only a copy that
\* returned sets it.
C29_BootstrapFirst ==
    \A r \in Runs :
        /\ (r \in kms.copyRequests \/ run[r].pc = "copySnapshot") =>
              (Bootstrapped(r) /\ kms.alias # None)
        /\ (run[r].pc = "threw" /\ run[r].failedAt # "copySnapshot") =>
              (r \notin kms.copyRequests /\ run[r].destinationSnapshotId = None)
        /\ run[r].destinationSnapshotId # None <=> run[r].pc = "returned"
        /\ run[r].pc = "returned" => r \in kms.copyRequests

\* C29 witness: one run made the key and the alias and got its snapshot; the
\* other found the alias missing too, failed at createAlias and asked for no
\* copy.
C29_Witness ==
    /\ run["r1"].pc = "returned"
    /\ run["r1"].aliasCreated
    /\ run["r1"].destinationSnapshotId # None
    /\ run["r2"].pc = "threw"
    /\ run["r2"].failedAt = "createAlias"
    /\ kms.copyRequests = {"r1"}


\* ------------------------------------------------- the document's claims
\* C21: whenever success has been reported for a target, the tags captured
\* from the source image are, as captured, on the destination image and on the
\* destination snapshot: createTags returned before 'Register AMI' did.
C21_TagFidelity ==
    \A t \in Targets :
        successCalls[t] > 0 =>
            /\ event[t].sourceImageAttrs \in SourceImageVersions
            /\ Tags(event[t].sourceImageAttrs) # {}
            /\ dest[t].imageTags = Tags(event[t].sourceImageAttrs)
            /\ dest[t].snapshotTags = Tags(event[t].sourceImageAttrs)
            /\ dest[t].taggedSnapshot = event[t].destinationSnapshotId

\* C21 witness: success reported, both resources carry the two tags captured
\* before the source image got a third.
C21_Witness ==
    \E t \in Targets :
        /\ successCalls[t] = 1
        /\ sourceImage = "v2"
        /\ dest[t].imageTags = Tags("v1")
        /\ dest[t].snapshotTags = Tags("v1")

\* C22 (as claimed): an execution that ended on the failure path has reported
\* its job failed, with a message that names the target's account, its region
\* and the snapshot copied for it.
C22_FailureReportNamesTarget ==
    \A t \in Targets :
        (ReachedFailure(t) /\ Halted(t)) =>
            /\ failureCalls[t] >= 1
            /\ \A r \in reported[t] :
                 r.message = <<destinationAccountId(t), destinationRegion(t), SnapshotCopyId(t)>>

\* The part of C22 that is about halting: once an execution is on the failure
\* path it stays there, so no copy, check, register or success step follows
\* the failure report.
FailureHalts ==
    [][\A t \in Targets :
         pc[t] \in {"Copy failed", "Fail"} =>
             pc'[t] \in {"Copy failed", "Fail", "ExecutionFailed"}]_vars

Identifiers(doc) ==
    <<doc.sourceImageId, doc.jobId, doc.destinationAccountId, doc.destinationRegion,
      doc.destinationRoleName, doc.kmsKeyAlias, doc.amiName>>

SnapshotStateWrites(t) == nChecks[t]

RegisterFailed(t) ==
    event[t].errorInfo # None /\ event[t].snapshotState = "completed"

\* C30 (as claimed): when the register step has failed, failure is reported
\* for the target and success is not.
C30_RegisterErrorReported ==
    \A t \in Targets :
        (RegisterFailed(t) /\ Halted(t)) =>
            /\ failureCalls[t] = 1
            /\ successCalls[t] = 0

\* ------------------------------------------------- the test stage's claims
\* The harness has ended after it asked for an instance of the built AMI.
TestedAmi == TestEnded /\ harness.amiId # Undefined

\* C24 (as claimed): when the harness has ended after launching the test
\* instance of the AMI, the AMI has a TestStatus tag, PASSED when InSpec exited
\* with code 0 and FAILED in every other case, whichever step failed.
C24_TestStatusReflectsResult ==
    TestedAmi =>
        /\ harness.tag \in {TestStatusTagValuePassed, TestStatusTagValueFailed}
        /\ harness.tag = TestStatusTagValuePassed <=> harness.inspec = Code(ExitOK)

\* What does hold of the tag: it is written only when InSpec ran to an exit
\* code, to the image and its snapshots alike, and then it is PASSED exactly
\* for exit code 0.
TagWhenTested ==
    harness.tag # None =>
        /\ (harness.inspec # NoExitCode \/ harness.signal # None)
        /\ harness.tag = harness.snapshotTag
        /\ harness.tag = TestStatusTagValuePassed <=> harness.inspec = Code(ExitOK)

\* ------------------------------------------------- the registration's claims
\* What the registered image takes from the captured image: the scalar
\* attributes, and the first mapping with the snapshot id replaced.
ReusesAttributes(t) ==
    LET src == Image(event[t].sourceImageAttrs)
        reg == dest[t].image
    IN /\ \A f \in {"Name", "Architecture", "VirtualizationType", "KernelId",
                     "RamdiskId", "RootDeviceName"} : reg[f] = src[f]
       /\ Len(reg.BlockDeviceMappings) >= 1
       /\ reg.BlockDeviceMappings[1] =
             [src.BlockDeviceMappings[1] EXCEPT !.Ebs.SnapshotId = event[t].destinationSnapshotId]
       /\ event[t].destinationSnapshotId = SnapshotCopyId(t)

\* C31 (as claimed): the registered image reuses the captured attributes and
\* the first mapping with the snapshot id replaced, and has as many device
\* mappings as the source image.
C31_RegisteredLikeSource ==
    \A t \in Targets :
        dest[t].imageAttrs # None =>
            /\ ReusesAttributes(t)
            /\ Len(dest[t].image.BlockDeviceMappings) =
                  Len(Image(event[t].sourceImageAttrs).BlockDeviceMappings)

\* The part of C31 that holds: attributes and first mapping are reused, the
\* snapshot id is the copy's.
FirstMappingReused ==
    \A t \in Targets : dest[t].imageAttrs # None => ReusesAttributes(t)

\* ------------------------------------------------------ the polling's claims
\* The last status check of target t returned a non-terminal state.
StillCopying(t) ==
    /\ pc[t] \in {"Is snapshot ready?", "Wait"}
    /\ event[t].snapshotState \in NonTerminalStates

\* C32: while the snapshot reports a non-terminal state the execution goes
\* from the choice to the wait and from the wait to the next check, whatever
\* the number of checks made and the time waited, and nothing has been
\* reported; the failure path is entered only on a state 'error' or on an
\* error a task threw.
C32_NoPollingDeadline ==
    /\ [](\A t \in Targets :
            /\ StillCopying(t) =>
                  (successCalls[t] = 0 /\ failureCalls[t] = 0 /\ event[t].errorInfo = None)
            /\ pc[t] = "Wait" => StillCopying(t))
    /\ [][\A t \in Targets :
            /\ (StillCopying(t) /\ pc[t] = "Is snapshot ready?")
                  => pc'[t] \in {"Is snapshot ready?", "Wait"}
            /\ pc[t] = "Wait" => pc'[t] \in {"Wait", "Check snapshot status"}
            /\ (pc[t] # "Copy failed" /\ pc'[t] = "Copy failed")
                  => (event'[t].snapshotState = "error" \/ event'[t].errorInfo # None)]_vars

\* C32 witness: after MaxPolls pending results in a row the execution waits
\* once more, with nothing reported.
C32_Witness ==
    \E t \in Targets :
        /\ pc[t] = "Wait"
        /\ nPending[t] = MaxPolls
        /\ nChecks[t] = MaxPolls
        /\ successCalls[t] = 0 /\ failureCalls[t] = 0

\* --------------------------------------------- kickoff's error handling
\* The kickoff of target t has ended after a step of its try block threw.
KickoffFailed(t) == kfail[t] # None /\ kpc[t] \in {"done", "threw"}

\* C33 (as claimed): when a step of kickoff's try block has thrown, kickoff
\* has reported failure for the job once, with the error, has started no
\* execution and has returned without throwing.
C33_KickoffReportsFailure ==
    \A t \in Targets :
        KickoffFailed(t) =>
            /\ failureCalls[t] = 1
            /\ reported[t] = {KickoffFailure(t)}
            /\ started[t] = 0
            /\ kpc[t] = "done"

\* What holds of a kickoff whose try block threw: no execution is started and
\* success is never reported; failure is reported once, for the job and with
\* the error, when and only when the catch block's own call returned.
KickoffFailureHandled ==
    \A t \in Targets :
        kfail[t] # None =>
            /\ started[t] = 0 /\ pc[t] = "NotStarted" /\ successCalls[t] = 0
            /\ kpc[t] = "done" => (failureCalls[t] = 1 /\ reported[t] = {KickoffFailure(t)})
            /\ kpc[t] # "done" => (failureCalls[t] = 0 /\ reported[t] = {})

\* ------------------------------------------------- the harness's tidying up
\* The calls the two finally blocks have made so far.
Called(c) == \E i \in 1..Len(harness.calls) : harness.calls[i] = c
Before(a, b) ==
    \A i, j \in 1..Len(harness.calls) :
        (harness.calls[i] = a /\ harness.calls[j] = b) => i < j

\* C35 (as claimed): when withTestSecurityGroupAndKey is through, a delete
\* call was made for the security group if it was created and for the key
\* pair if it was created, and the promise is settled only then.
C35_TidiesUp ==
    /\ harness.pc = "settled" =>
          /\ harness.securityGroup => Called("deleteSecurityGroup")
          /\ harness.keyPair => Called("deleteKeyPair")
    /\ harness.settled # None => harness.pc = "settled"

\* What holds of the cleanup: the security group's deletion is always asked
\* for, the key pair's only after it, and on the path without an error the
\* promise is resolved when the cleanup is over.
SecurityGroupDeleteIssued ==
    /\ (harness.pc = "settled" /\ harness.securityGroup) => Called("deleteSecurityGroup")
    /\ Called("deleteKeyPair") => (harness.keyPair /\ Called("deleteSecurityGroup"))
    /\ Before("deleteSecurityGroup", "deleteKeyPair")
    /\ harness.settled = "resolved" => harness.pc = "settled"

C37_ExitCode ==
    TestEnded =>
        /\ ProcessExitCode(harness) = ExitOK =>
              (harness.inspec = Code(ExitOK) /\ harness.tag = TestStatusTagValuePassed)
        /\ harness.caught => ProcessExitCode(harness) = ExitHarnessError

\* What holds of the exit code: the claim, for every run in which no signal
\* ended InSpec.
ExitCodeUnlessKilled ==
    (TestEnded /\ harness.signal = None) =>
        /\ ProcessExitCode(harness) = ExitOK =>
              (harness.inspec = Code(ExitOK) /\ harness.tag = TestStatusTagValuePassed)
        /\ harness.caught => ProcessExitCode(harness) = ExitHarnessError
        /\ harness.inspec # NoExitCode /\ ~harness.caught
              => ProcessExitCode(harness) = harness.inspec[1]

\* --------------------------------------------- the Parallel machine's claim
\* C34 (as claimed): a branch whose status check returned 'error' does not
\* wait and check again: it is neither in the wait nor back at the check.
C34_ErrorLeavesLoop ==
    \A t \in Targets :
        copyTasks.snapshotState[t] = "error" =>
            copyTasks.pc[t] \notin {"WaitAndRecheck", "CheckSnapshotTask"}

\* In that machine only 'completed' leaves the loop: a branch registers its
\* image after a check that returned 'completed', and after no other.
OnlyCompletedLeavesLoop ==
    \A t \in Targets :
        copyTasks.pc[t] \in {"RegisterImageTask", "End"} =>
            copyTasks.snapshotState[t] = "completed"

=============================================================================
